---- MODULE Spec2Model ----
(***************************************************************************)
(* Model of ComfyUI-wanBlockswap (nodes.py): the WanVideoBlockSwap node.   *)
(*                                                                         *)
(* set_callback clones a model handle and registers two closures on the    *)
(* clone: swap_blocks_after_load (ON_LOAD) and cleanup_after_sampling      *)
(* (ON_CLEANUP).  The host fires them in-line, single threaded.            *)
(***************************************************************************)
EXTENDS Integers, Sequences, FiniteSets, TLC

\* ------------------------------------------------------------------ bounds
\* len(unet.blocks) of the loaded model
NumBlocks == 2
\* the cutoffs tried run over 0..Min(MaxBlocksToSwap, CutoffBound)
CutoffBound == 2
\* number of set_callback invocations
MaxConfigs == 2
\* number of WanVideoBlockSwap objects ever created
MaxInstances == 2
\* number of distinct object addresses the allocator hands out
MaxAddr == 1

\* --------------------------------------------------------- program constants
\* "blocks_to_swap": ("INT", {"default": 20, "min": 0, "max": 40, "step": 1})
MinBlocksToSwap == 0
MaxBlocksToSwap == 40

ON_LOAD == "on_load"
ON_CLEANUP == "on_cleanup"

\* model_patcher.load_device / model_patcher.offload_device
main_device == "cuda:0"
offload_device == "cpu"
Devices == {main_device, offload_device}

\* the classes a base model can be an instance of
ModelTypes == {"WAN21", "BaseModel"}

Min(a, b) == IF a < b THEN a ELSE b

BlocksToSwapValues == MinBlocksToSwap .. Min(MaxBlocksToSwap, CutoffBound)

BlockIdx == 0 .. (NumBlocks - 1)

\* the sub-modules of the diffusion model that the node relocates
Blk(b) == <<"blocks", b>>
text_embedding == <<"text_embedding", 0>>
img_emb == <<"img_emb", 0>>
Modules == {Blk(b) : b \in BlockIdx} \cup {text_embedding, img_emb}

Handles == 0 .. MaxConfigs
Addrs == 1 .. MaxAddr

NoClosure == [creator |-> 0, instance_id |-> 0, blocks_to_swap |-> 0,
              offload_txt_emb |-> FALSE, offload_img_emb |-> FALSE,
              use_non_blocking |-> FALSE]

VARIABLES
    base_model,   \* class of model_patcher.model (shared by all clones)
    dev,          \* device of each sub-module of the diffusion model
    patch,        \* patch state of the weights of the base model (shared by all clones)
    exists,       \* the handles created so far
    callbacks,    \* callback table of every handle: call_type -> <<[key, fns]>>
    closure,      \* variables captured by the closures of each set_callback call
    nCfg,         \* number of set_callback calls so far
    heap,         \* address -> serial of the live node object there (0: free)
    nInst,        \* node objects created so far
    phase,        \* host position in the load / sample / cleanup round
    cur,          \* the handle the host is working with
    pending,      \* callbacks the host has still to fire in this phase
    last,         \* the node operation that ran last
    trace,        \* what the last callback invocation did, in order
    firstRes      \* block devices at the end of each closure's first recognized run

vars == <<base_model, dev, patch, exists, callbacks, closure, nCfg, heap, nInst,
          phase, cur, pending, last, trace, firstRes>>

\* ------------------------------------------------------------ node objects
\* The host creates and drops node objects between node executions, in its one
\* thread.  A new WanVideoBlockSwap object is allocated at an address no live
\* object has.
NewInstance(a) ==
    /\ phase = "idle"
    /\ nInst < MaxInstances
    /\ heap[a] = 0
    /\ heap' = [heap EXCEPT ![a] = nInst + 1]
    /\ nInst' = nInst + 1
    /\ UNCHANGED <<base_model, dev, patch, exists, callbacks, closure, nCfg,
                   phase, cur, pending, last, trace, firstRes>>

\* the object at address a is collected; the closures it created hold only the
\* integer instance_id, never the object, and so do not keep it alive
FreeInstance(a) ==
    /\ phase = "idle"
    /\ heap[a] # 0
    /\ heap' = [heap EXCEPT ![a] = 0]
    /\ UNCHANGED <<base_model, dev, patch, exists, callbacks, closure, nCfg, nInst,
                   phase, cur, pending, last, trace, firstRes>>

\* id(self): the address of the object, unique among the objects alive now
id(a) == a

\* f"wan_block_swap_{instance_id}" and f"wan_cleanup_{instance_id}"
swap_key(instance_id) == "wan_block_swap_" \o ToString(instance_id)
cleanup_key(instance_id) == "wan_cleanup_" \o ToString(instance_id)

\* --------------------------------------------------------- callback tables
EmptyTable == [t \in {ON_LOAD, ON_CLEANUP} |-> <<>>]

\* model.clone(): the clone gets its own copy of the callback table
clone(tab) == [t \in {ON_LOAD, ON_CLEANUP} |->
                 [i \in 1 .. Len(tab[t]) |-> [key |-> tab[t][i].key, fns |-> tab[t][i].fns]]]

\* model.add_callback_with_key(call_type, key, fn): the callbacks of a call type
\* are kept per key, in registration order; a key already present gets one more
add_callback_with_key(tab, call_type, key, fn) ==
    LET lst == tab[call_type]
        at == {i \in 1 .. Len(lst) : lst[i].key = key}
    IN  IF at = {}
        THEN [tab EXCEPT ![call_type] = Append(lst, [key |-> key, fns |-> <<fn>>])]
        ELSE [tab EXCEPT ![call_type] =
                 [i \in 1 .. Len(lst) |-> IF i \in at
                                          THEN [key |-> key, fns |-> Append(lst[i].fns, fn)]
                                          ELSE lst[i]]]

RECURSIVE Flatten(_)
Flatten(lst) == IF lst = <<>> THEN <<>> ELSE Head(lst).fns \o Flatten(Tail(lst))

\* the callbacks of one call type, in the order the host fires them
get_all_callbacks(tab, call_type) == Flatten(tab[call_type])

NoRun == [kind |-> "none", fn |-> 0, handle |-> 0, raised |-> FALSE, rerun |-> FALSE]
NoRes == <<>>

\* model = model.clone(): from here on the name model is the clone
model_not_rebound(h, fresh) == h
model_after_clone(h, fresh) == fresh

\* the two registrations of set_callback; both closures share the variables c
register(tab, instance_id, c) ==
    add_callback_with_key(
        add_callback_with_key(tab, ON_LOAD, swap_key(instance_id), c),
        ON_CLEANUP, cleanup_key(instance_id), c)

\* ---------------------------------------------------------- set_callback
\* set_callback(self, model, blocks_to_swap, offload_txt_emb, offload_img_emb,
\* use_non_blocking), self being the object at address a and model the handle h;
\* the handle returned is c
set_callback(a, h, bts, txt, img, nb) ==
    LET c == nCfg + 1
        instance_id == id(a)
    IN  /\ phase = "idle"
        /\ heap[a] # 0
        /\ exists[h]
        /\ nCfg < MaxConfigs
        /\ nCfg' = c
        /\ closure' = [closure EXCEPT ![c] =
               [creator |-> heap[a], instance_id |-> instance_id, blocks_to_swap |-> bts,
                offload_txt_emb |-> txt, offload_img_emb |-> img, use_non_blocking |-> nb]]
        /\ exists' = [exists EXCEPT ![c] = TRUE]
        /\ callbacks' = [callbacks EXCEPT ![c] = clone(callbacks[h]),
                                          ![model_after_clone(h, c)] = register(@, instance_id, c)]
        /\ last' = [kind |-> "config", fn |-> c, handle |-> h, raised |-> FALSE,
                    rerun |-> FALSE]
        /\ UNCHANGED <<base_model, dev, patch, heap, nInst, phase, cur, pending, trace,
                       firstRes>>

\* ------------------------------------------------------------------ events
\* one step of a callback, as the host and the devices see it
Ev(op, mod, dv, nb) == [op |-> op, mod |-> mod, dev |-> dv, non_blocking |-> nb]
NoMod == <<"", 0>>
Log(what) == Ev(what, NoMod, "", FALSE)

\* module.to(device, non_blocking=nb)
To(mod, dv, nb) == Ev("to", mod, dv, nb)

\* the devices after the transfers of evs, in order, from the devices d
RECURSIVE ApplyMoves(_, _)
ApplyMoves(evs, d) ==
    IF evs = <<>> THEN d
    ELSE LET e == Head(evs)
         IN  ApplyMoves(Tail(evs), IF e.op = "to" THEN [d EXCEPT ![e.mod] = e.dev] ELSE d)

\* comfy.model_management.soft_empty_cache(); gc.collect()
Reclaim == <<Log("soft_empty_cache"), Log("gc_collect")>>

\* ------------------------------------------------- swap_blocks_after_load
\* isinstance(base_model, WAN21)
isinstance_always(m) == TRUE
isinstance_WAN21(m) == m = "WAN21"

\* target_dev = main_device if b > blocks_to_swap else offload_device
target_dev_ge(b, blocks_to_swap) ==
    IF b >= blocks_to_swap THEN main_device ELSE offload_device
target_dev(b, blocks_to_swap) ==
    IF b > blocks_to_swap THEN main_device ELSE offload_device

\* a loop that offloads the leading blocks and leaves the others where they are
block_loop_offload_only(blocks_to_swap) ==
    LET n == Min(blocks_to_swap + 1, NumBlocks)
    IN  [i \in 1 .. n |-> To(Blk(i - 1), offload_device, FALSE)]
\* the index counted from one: enumerate(unet.blocks, 1)
block_loop_from_one(blocks_to_swap) ==
    [i \in 1 .. NumBlocks |-> To(Blk(i - 1), target_dev(i, blocks_to_swap), FALSE)]
\* for b, block in enumerate(unet.blocks): block.to(target_dev)
block_loop(blocks_to_swap) ==
    [i \in 1 .. NumBlocks |-> To(Blk(i - 1), target_dev(i - 1, blocks_to_swap), FALSE)]

\* the two flags read the other way round
aux_moves_crossed(p) ==
    (IF p.offload_img_emb
     THEN <<Log("log_info"), To(text_embedding, offload_device, p.use_non_blocking)>>
     ELSE <<>>)
    \o (IF p.offload_txt_emb
        THEN <<Log("log_info"), To(img_emb, offload_device, p.use_non_blocking)>>
        ELSE <<>>)
\* if offload_txt_emb: unet.text_embedding.to(offload_device, non_blocking=...)
\* if offload_img_emb: unet.img_emb.to(offload_device, non_blocking=...)
aux_moves(p) ==
    (IF p.offload_txt_emb
     THEN <<Log("log_info"), To(text_embedding, offload_device, p.use_non_blocking)>>
     ELSE <<>>)
    \o (IF p.offload_img_emb
        THEN <<Log("log_info"), To(img_emb, offload_device, p.use_non_blocking)>>
        ELSE <<>>)

\* the cache is emptied before the transfers
swap_body_reclaim_first(p, m) ==
    <<Log("log_start")>>
    \o Reclaim
    \o (IF isinstance_WAN21(m)
        THEN <<Log("log_info")>> \o block_loop(p.blocks_to_swap) \o aux_moves(p)
        ELSE <<Log("log_warning")>>)
    \o <<Log("log_end")>>
\* the body of swap_blocks_after_load with the captured variables p, on a base
\* model of class m
swap_body(p, m) ==
    <<Log("log_start")>>
    \o (IF isinstance_WAN21(m)
        THEN <<Log("log_info")>> \o block_loop(p.blocks_to_swap) \o aux_moves(p)
        ELSE <<Log("log_warning")>>)
    \o Reclaim
    \o <<Log("log_end")>>

BlockDevs(d) == [i \in 1 .. NumBlocks |-> d[Blk(i - 1)]]

\* the host fires the next ON_LOAD callback of the handle it loaded
swap_blocks_after_load ==
    /\ phase = "on_load"
    /\ pending # <<>>
    /\ LET c == Head(pending)
           body == swap_body(closure[c], base_model)
           d == ApplyMoves(body, dev)
       IN  /\ trace' = body
           /\ dev' = d
           /\ last' = [kind |-> "swap", fn |-> c, handle |-> cur, raised |-> FALSE,
                       rerun |-> firstRes[c] # NoRes]
           /\ firstRes' = IF base_model = "WAN21" /\ firstRes[c] = NoRes
                          THEN [firstRes EXCEPT ![c] = BlockDevs(d)]
                          ELSE firstRes
    /\ pending' = Tail(pending)
    /\ UNCHANGED <<base_model, patch, exists, callbacks, closure, nCfg, heap, nInst,
                   phase, cur>>

\* ------------------------------------------------- cleanup_after_sampling
\* the patch state unpatch_model(..., unpatch_weights=False) leaves
unpatch_keep_weights(ps) == ps
\* the patch state model_patcher.unpatch_model(offload_device, unpatch_weights=True)
\* leaves when it returns
unpatch_model(ps) == "baseline"

\* the patch states a failed unpatch_model can leave
unpatch_failed(ps) == IF ps = "patched" THEN {"patched", "partial"} ELSE {ps}

\* a failure of unpatch_model caught and passed over
cleanup_body_swallow(ok) ==
    <<Log("log_start"), Log(IF ok THEN "unpatch_model" ELSE "unpatch_model_failed")>>
    \o Reclaim
    \o <<Log("log_end")>>
\* the body of cleanup_after_sampling; ok: unpatch_model returns, otherwise it
\* raises and nothing in the body catches it
cleanup_body(ok) ==
    <<Log("log_start")>>
    \o (IF ok
        THEN <<Log("unpatch_model")>> \o Reclaim \o <<Log("log_end")>>
        ELSE <<Log("unpatch_model_failed"), Log("raise")>>)

Raises(body) == body[Len(body)].op = "raise"

\* the host fires the next ON_CLEANUP callback of the handle it cleans up
cleanup_after_sampling(ok) ==
    /\ phase = "on_cleanup"
    /\ pending # <<>>
    /\ LET c == Head(pending)
           body == cleanup_body(ok)
       IN  /\ trace' = body
           /\ last' = [kind |-> "cleanup", fn |-> c, handle |-> cur, raised |-> Raises(body),
                       rerun |-> last.kind = "cleanup" /\ ~last.raised
                                 /\ last.handle = cur]
           /\ IF ok
              THEN /\ patch' = unpatch_model(patch)
                   /\ dev' = [m \in Modules |-> offload_device]
              ELSE /\ patch' \in unpatch_failed(patch)
                   /\ dev' = dev
           \* an exception leaves the host's loop over the callbacks
           /\ IF Raises(body)
              THEN pending' = <<>> /\ phase' = "idle"
              ELSE pending' = Tail(pending) /\ phase' = phase
    /\ UNCHANGED <<base_model, exists, callbacks, closure, nCfg, heap, nInst, cur, firstRes>>

\* ---------------------------------------------------------------- the host
\* the host loads handle h: the modules end on the devices d (a full or partial
\* load), the patches of h are applied or there are none, and the ON_LOAD
\* callbacks are due
HostLoad(h, d, applied) ==
    /\ phase = "idle"
    /\ exists[h]
    /\ cur' = h
    /\ dev' = d
    /\ patch' = IF applied THEN "patched" ELSE patch
    /\ pending' = get_all_callbacks(callbacks[h], ON_LOAD)
    /\ phase' = "on_load"
    /\ last' = NoRun
    /\ trace' = <<>>
    /\ UNCHANGED <<base_model, exists, callbacks, closure, nCfg, heap, nInst, firstRes>>

\* every ON_LOAD callback has run: the host runs inference
HostSample ==
    /\ phase = "on_load"
    /\ pending = <<>>
    /\ phase' = "sampled"
    /\ UNCHANGED <<base_model, dev, patch, exists, callbacks, closure, nCfg, heap, nInst,
                   cur, pending, last, trace, firstRes>>

\* inference is over: the ON_CLEANUP callbacks of the handle are due
HostCleanup ==
    /\ phase = "sampled"
    /\ pending' = get_all_callbacks(callbacks[cur], ON_CLEANUP)
    /\ phase' = "on_cleanup"
    /\ UNCHANGED <<base_model, dev, patch, exists, callbacks, closure, nCfg, heap, nInst,
                   cur, last, trace, firstRes>>

\* the host cleans handle h up once more, with no load or inference before
HostCleanupAgain(h) ==
    /\ phase = "idle"
    /\ exists[h]
    /\ cur' = h
    /\ pending' = get_all_callbacks(callbacks[h], ON_CLEANUP)
    /\ phase' = "on_cleanup"
    /\ UNCHANGED <<base_model, dev, patch, exists, callbacks, closure, nCfg, heap, nInst,
                   last, trace, firstRes>>

\* every ON_CLEANUP callback has run
HostDone ==
    /\ phase = "on_cleanup"
    /\ pending = <<>>
    /\ phase' = "idle"
    /\ UNCHANGED <<base_model, dev, patch, exists, callbacks, closure, nCfg, heap, nInst,
                   cur, pending, last, trace, firstRes>>

\* ------------------------------------------------------------ specification
AllOn(dv) == [m \in Modules |-> dv]

InitModel ==
    /\ base_model \in ModelTypes
    /\ dev = AllOn(offload_device)
    /\ patch = "baseline"
    /\ exists = [h \in Handles |-> h = 0]
    /\ callbacks = [h \in Handles |-> EmptyTable]
    /\ closure = [c \in 1 .. MaxConfigs |-> NoClosure]
    /\ nCfg = 0
    /\ phase = "idle"
    /\ cur = 0
    /\ pending = <<>>
    /\ last = NoRun
    /\ trace = <<>>
    /\ firstRes = [c \in 1 .. MaxConfigs |-> NoRes]

\* One node object, one configuration with any policy, and any number of host
\* rounds (load, ON_LOAD callbacks, inference, ON_CLEANUP callbacks) on the
\* original handle and on the configured clone.
Init ==
    /\ InitModel
    /\ heap = [a \in Addrs |-> IF a = 1 THEN 1 ELSE 0]
    /\ nInst = 1

Next ==
    \/ /\ nCfg = 0
       /\ \E a \in Addrs, h \in Handles, bts \in BlocksToSwapValues,
             txt \in BOOLEAN, img \in BOOLEAN, nb \in BOOLEAN :
             set_callback(a, h, bts, txt, img, nb)
    \/ \E h \in Handles, d \in [Modules -> Devices], applied \in BOOLEAN :
          HostLoad(h, d, applied)
    \/ swap_blocks_after_load
    \/ HostSample
    \/ HostCleanup
    \/ \E h \in Handles : HostCleanupAgain(h)
    \/ \E ok \in BOOLEAN : cleanup_after_sampling(ok)
    \/ HostDone

Spec == Init /\ [][Next]_vars

\* Node objects created and collected, and up to MaxConfigs configurations on
\* the original handle or on clones; the policies differ in the cutoff (the lowest
\* or the highest) and every load is a full load.
InitMulti ==
    /\ InitModel
    /\ heap = [a \in Addrs |-> 0]
    /\ nInst = 0

NextMulti ==
    \/ \E a \in Addrs : NewInstance(a)
    \/ \E a \in Addrs : FreeInstance(a)
    \/ \E a \in Addrs, h \in Handles, bts \in {MinBlocksToSwap, Min(MaxBlocksToSwap, CutoffBound)} :
          set_callback(a, h, bts, FALSE, FALSE, FALSE)
    \/ \E h \in Handles : HostLoad(h, AllOn(main_device), TRUE)
    \/ swap_blocks_after_load
    \/ HostSample
    \/ HostCleanup
    \/ \E ok \in BOOLEAN : cleanup_after_sampling(ok)
    \/ HostDone

SpecMulti == InitMulti /\ [][NextMulti]_vars

\* ------------------------------------------------------------- properties
\* the variables the closures of the callback that ran last captured
Policy == closure[last.fn]

\* a swap_blocks_after_load invocation has completed and nothing has touched the
\* devices since
AfterSwap == last.kind = "swap"
Recognized == base_model = "WAN21"

\* this step is one invocation of swap_blocks_after_load
SwapStep == phase = "on_load" /\ pending # <<>> /\ pending' = Tail(pending)
\* this step is one invocation of cleanup_after_sampling
CleanupStep == phase = "on_cleanup" /\ pending # <<>> /\ pending' # pending
\* this step is one call of set_callback
ConfigStep == nCfg' = nCfg + 1

Ops(tr) == [i \in 1 .. Len(tr) |-> tr[i].op]
Positions(tr, op) == {i \in 1 .. Len(tr) : tr[i].op = op}
Offloaded == {b \in BlockIdx : dev[Blk(b)] = offload_device}
OnCompute == {b \in BlockIdx : dev[Blk(b)] = main_device}

\* C1: on a WAN21 model, for every cutoff tried (0 up to and beyond the number
\* of blocks), once swap_blocks_after_load has completed every block with index
\* above the cutoff is on the load device and every block with index at most the
\* cutoff is on the offload device, wherever the host had put the blocks.
C1_BlocksFollowCutoff ==
    (AfterSwap /\ Recognized) =>
        \A b \in BlockIdx :
            /\ b > Policy.blocks_to_swap => dev[Blk(b)] = main_device
            /\ b <= Policy.blocks_to_swap => dev[Blk(b)] = offload_device

C1_Witness ==
    /\ AfterSwap /\ Recognized
    /\ Policy.blocks_to_swap >= NumBlocks
    /\ Offloaded = BlockIdx

\* C2 as stated: with the cutoff at N-1 every block but the last is offloaded and
\* the last block is on the compute device.
C2_AllButLastOffloaded ==
    (AfterSwap /\ Recognized /\ Policy.blocks_to_swap = NumBlocks - 1) =>
        /\ \A b \in 0 .. (NumBlocks - 2) : dev[Blk(b)] = offload_device
        /\ dev[Blk(NumBlocks - 1)] = main_device

\* C2 amended: with a cutoff of at most N-1 exactly the first cutoff+1 blocks are
\* offloaded and the remainder are on the compute device; with the cutoff at N-1
\* that is every block, the last one included, and no block is on the compute
\* device.
C2_FirstCutoffPlusOneOffloaded ==
    (AfterSwap /\ Recognized /\ Policy.blocks_to_swap <= NumBlocks - 1) =>
        /\ Offloaded = 0 .. Policy.blocks_to_swap
        /\ Cardinality(Offloaded) = Policy.blocks_to_swap + 1
        /\ OnCompute = BlockIdx \ Offloaded
        /\ Policy.blocks_to_swap = NumBlocks - 1 =>
               dev[Blk(NumBlocks - 1)] = offload_device /\ OnCompute = {}

C2_Witness ==
    /\ AfterSwap /\ Recognized
    /\ Policy.blocks_to_swap = NumBlocks - 1
    /\ dev[Blk(NumBlocks - 1)] = offload_device

\* C3: whatever the policy, on a base model that is not a WAN21 instance one
\* invocation of swap_blocks_after_load leaves every block and both auxiliary
\* sub-modules on the device they were on, issues no transfer, and runs to its
\* end without raising.
C3_UnrecognizedIsNoOp ==
    [][(SwapStep /\ ~Recognized) =>
          /\ dev' = dev
          /\ Positions(trace', "to") = {}
          /\ last'.kind = "swap" /\ ~last'.raised
          /\ trace'[Len(trace')].op = "log_end"
          /\ Positions(trace', "raise") = {}]_vars

C3_Witness ==
    /\ AfterSwap /\ ~Recognized
    /\ Policy.offload_txt_emb /\ Policy.offload_img_emb
    /\ Policy.blocks_to_swap < NumBlocks - 1
    /\ dev[text_embedding] = main_device /\ dev[img_emb] = main_device
    /\ dev[Blk(0)] = main_device /\ dev[Blk(NumBlocks - 1)] = offload_device

Fns(tab, call_type) ==
    LET f == get_all_callbacks(tab, call_type) IN {f[i] : i \in 1 .. Len(f)}
Count(tab, call_type) == Len(get_all_callbacks(tab, call_type))

\* C4: a set_callback call creates a new handle whose callback table is that of
\* the input handle plus exactly two callbacks, one under ON_LOAD and one under
\* ON_CLEANUP, both of this call; every handle that existed before, the input
\* handle included, keeps its callback table, and the devices, the patch state
\* and the host's position are what they were: nothing is relocated.
C4_CloneGetsTwoCallbacks ==
    [][ConfigStep =>
          LET c == nCfg'
              h == last'.handle
          IN  /\ ~exists[c] /\ exists'[c] /\ exists[h]
              /\ \A t \in {ON_LOAD, ON_CLEANUP} :
                    /\ Count(callbacks'[c], t) = Count(callbacks[h], t) + 1
                    /\ Fns(callbacks'[c], t) = Fns(callbacks[h], t) \cup {c}
                    /\ c \notin Fns(callbacks[h], t)
              /\ \A g \in Handles : exists[g] => callbacks'[g] = callbacks[g]
              /\ dev' = dev /\ patch' = patch /\ trace' = trace
              /\ phase' = phase /\ pending' = pending]_vars

C4_Witness ==
    /\ last.kind = "config"
    /\ last.handle # 0
    /\ Count(callbacks[last.handle], ON_LOAD) = 1
    /\ Count(callbacks[last.fn], ON_LOAD) = 2
    /\ Count(callbacks[last.fn], ON_CLEANUP) = 2
    /\ patch = "patched"
    /\ dev[Blk(NumBlocks - 1)] = main_device

\* C5: once cleanup_after_sampling has completed the weights are at baseline; and
\* a second completed run on the same handle, with no load or inference between
\* the two, leaves the weights and the devices exactly as the first left them.
C5_CleanupBaselineIdempotent ==
    /\ []((last.kind = "cleanup" /\ ~last.raised) => patch = "baseline")
    /\ [][(CleanupStep /\ last.kind = "cleanup" /\ ~last.raised /\ last.handle = cur
              /\ ~last'.raised) =>
             (patch' = patch /\ dev' = dev /\ patch' = "baseline")]_vars

C5_Witness ==
    /\ last.kind = "cleanup" /\ ~last.raised /\ last.rerun
    /\ patch = "baseline"

\* C6: when unpatch_model fails inside cleanup_after_sampling the exception leaves
\* the callback: the invocation ends raising, neither soft_empty_cache nor
\* gc.collect nor the closing log line is reached, and the host's loop over the
\* callbacks is left; swap_blocks_after_load never raises, recognized model or not.
C6_UnpatchFailurePropagates ==
    /\ []((last.kind = "cleanup" /\ Positions(trace, "unpatch_model_failed") # {}) =>
             /\ last.raised
             /\ trace[Len(trace)].op = "raise"
             /\ Positions(trace, "soft_empty_cache") = {}
             /\ Positions(trace, "gc_collect") = {}
             /\ Positions(trace, "log_end") = {})
    /\ [][(CleanupStep /\ Positions(trace', "unpatch_model_failed") # {}) =>
             (last'.raised /\ pending' = <<>> /\ phase' = "idle")]_vars
    /\ [](AfterSwap => (~last.raised /\ Positions(trace, "raise") = {}))

C6_Witness ==
    /\ last.kind = "cleanup" /\ last.raised
    /\ Positions(trace, "unpatch_model_failed") # {}
    /\ patch = "partial"

AuxTo(tr, mod) == {i \in 1 .. Len(tr) : tr[i].op = "to" /\ tr[i].mod = mod}

\* C7: on a WAN21 model one invocation of swap_blocks_after_load leaves
\* text_embedding on the offload device if offload_txt_emb is set and where it was
\* otherwise, and img_emb likewise under offload_img_emb, each whatever the other
\* flag and the cutoff are; every auxiliary transfer carries the use_non_blocking
\* flag, and with the flag false every transfer of the invocation is blocking.
C7_AuxiliaryFollowsOwnFlag ==
    [][(SwapStep /\ Recognized) =>
          LET p == closure[Head(pending)]
          IN  /\ dev'[text_embedding] =
                    IF p.offload_txt_emb THEN offload_device ELSE dev[text_embedding]
              /\ dev'[img_emb] =
                    IF p.offload_img_emb THEN offload_device ELSE dev[img_emb]
              /\ Cardinality(AuxTo(trace', text_embedding)) = IF p.offload_txt_emb THEN 1 ELSE 0
              /\ Cardinality(AuxTo(trace', img_emb)) = IF p.offload_img_emb THEN 1 ELSE 0
              /\ \A i \in AuxTo(trace', text_embedding) \cup AuxTo(trace', img_emb) :
                    /\ trace'[i].non_blocking = p.use_non_blocking
                    /\ trace'[i].dev = offload_device
              /\ ~p.use_non_blocking =>
                    \A i \in Positions(trace', "to") : ~trace'[i].non_blocking]_vars

C7_Witness ==
    /\ AfterSwap /\ Recognized
    /\ Policy.offload_txt_emb /\ ~Policy.offload_img_emb /\ ~Policy.use_non_blocking
    /\ Policy.blocks_to_swap = 0
    /\ dev[text_embedding] = offload_device
    /\ dev[img_emb] = main_device
    /\ AuxTo(trace, text_embedding) # {}

\* C8: over any number of host rounds on the configured clone, at the end of
\* every swap_blocks_after_load run on a WAN21 model the blocks are on the devices
\* they were on at the end of the closure's first run, at the end of every
\* completed cleanup_after_sampling run the weights are at baseline, and no host
\* round changes the captured variables or any callback table.
C8_NoStateAcrossRounds ==
    /\ []((AfterSwap /\ Recognized) =>
             (firstRes[last.fn] # NoRes /\ BlockDevs(dev) = firstRes[last.fn]))
    /\ []((last.kind = "cleanup" /\ ~last.raised) => patch = "baseline")
    /\ [][~ConfigStep =>
             (closure' = closure /\ callbacks' = callbacks /\ exists' = exists)]_vars

C8_Witness ==
    /\ AfterSwap /\ Recognized /\ last.rerun
    /\ last.handle = 1
    /\ Count(callbacks[1], ON_LOAD) = 1
    /\ BlockDevs(dev) = firstRes[last.fn]
    /\ Policy.blocks_to_swap = 0

\* C9 as stated: two distinct node objects never register under the same key, and
\* no key of any callback table holds callbacks of two node objects.
C9_DistinctInstancesDistinctKeys ==
    /\ \A c1 \in 1 .. nCfg, c2 \in 1 .. nCfg :
          closure[c1].creator # closure[c2].creator =>
              /\ swap_key(closure[c1].instance_id) # swap_key(closure[c2].instance_id)
              /\ cleanup_key(closure[c1].instance_id) # cleanup_key(closure[c2].instance_id)
    /\ \A h \in Handles, t \in {ON_LOAD, ON_CLEANUP} :
          \A i \in 1 .. Len(callbacks[h][t]) :
              \A j, k \in 1 .. Len(callbacks[h][t][i].fns) :
                  closure[callbacks[h][t][i].fns[j]].creator
                      = closure[callbacks[h][t][i].fns[k]].creator

\* the one position of op in tr, 0 when there is none or more than one
Only(tr, op) ==
    IF Cardinality(Positions(tr, op)) = 1 THEN CHOOSE i \in Positions(tr, op) : TRUE ELSE 0

\* soft_empty_cache and then gc.collect, once each, after every transfer
ReclaimedOnceAtEnd(tr) ==
    /\ Only(tr, "soft_empty_cache") # 0
    /\ Only(tr, "gc_collect") = Only(tr, "soft_empty_cache") + 1
    /\ \A i \in Positions(tr, "to") : i < Only(tr, "soft_empty_cache")

\* the transfers of a run on a WAN21 model: every block once, in increasing index
\* order, then text_embedding, then img_emb
TransfersInOrder(tr) ==
    /\ \A b \in BlockIdx : Cardinality(AuxTo(tr, Blk(b))) = 1
    /\ \A i \in Positions(tr, "to"), j \in Positions(tr, "to") :
          /\ (tr[i].mod[1] = "blocks" /\ tr[j].mod[1] = "blocks" /\ tr[i].mod[2] < tr[j].mod[2])
                => i < j
          /\ (tr[i].mod[1] = "blocks" /\ tr[j].mod[1] # "blocks") => i < j
          /\ (tr[i].mod = text_embedding /\ tr[j].mod = img_emb) => i < j

\* what C10 says of the two callbacks apart from the mismatch case
OrderedOtherwise ==
    /\ AfterSwap =>
          /\ trace[1].op = "log_start"
          /\ trace[2].op = IF Recognized THEN "log_info" ELSE "log_warning"
          /\ Recognized => (TransfersInOrder(trace) /\ ReclaimedOnceAtEnd(trace))
    /\ last.kind = "cleanup" =>
          /\ Cardinality(Positions(trace, "soft_empty_cache")) <= 1
          /\ Positions(trace, "soft_empty_cache") # {} =>
                /\ Only(trace, "unpatch_model") # 0
                /\ Only(trace, "unpatch_model") < Only(trace, "soft_empty_cache")
                /\ Only(trace, "gc_collect") = Only(trace, "soft_empty_cache") + 1
          /\ ~last.raised => Positions(trace, "soft_empty_cache") # {}

\* C10 as stated: on a mismatch swap_blocks_after_load ends with no transfer and
\* no memory-reclamation pass; the other steps are ordered as described.
C10_MismatchSkipsReclaim ==
    /\ OrderedOtherwise
    /\ (AfterSwap /\ ~Recognized) =>
          /\ Positions(trace, "to") = {}
          /\ Positions(trace, "soft_empty_cache") = {}
          /\ Positions(trace, "gc_collect") = {}

\* C10 amended: the class check comes first; on a mismatch the callback makes no
\* transfer but still runs the memory-reclamation pass, once, before it ends;
\* otherwise the blocks are assigned in increasing index order, then the auxiliary
\* sub-modules, and soft_empty_cache followed by gc.collect runs exactly once,
\* after the last transfer.  In cleanup_after_sampling the pass runs at most once,
\* only after unpatch_model has returned, and exactly once when the callback
\* completes.
C10_OrderedSteps ==
    /\ OrderedOtherwise
    /\ (AfterSwap /\ ~Recognized) =>
          /\ Positions(trace, "to") = {}
          /\ ReclaimedOnceAtEnd(trace)
          /\ Only(trace, "log_warning") # 0
          /\ Only(trace, "log_warning") < Only(trace, "soft_empty_cache")

C10_Witness ==
    /\ AfterSwap /\ ~Recognized
    /\ Positions(trace, "to") = {}
    /\ Ops(trace) = <<"log_start", "log_warning", "soft_empty_cache", "gc_collect", "log_end">>

====
